---- MODULE Spec2Model ----
(***************************************************************************)
(* The App component of src/src/App.js as a state machine.                 *)
(*                                                                         *)
(* The state is the component's useState cells, the HTTP requests whose    *)
(* promise has not settled yet (each with what its handler's closure       *)
(* captured when it was issued), and the number of setTimeout callbacks    *)
(* still pending.  One action per user gesture, per settled request and    *)
(* per timer.  JavaScript runs each of these to completion, React renders  *)
(* and runs the [currentPage] effect before the next event is handled, so  *)
(* an action holds the state updates of a handler (or of the part of an    *)
(* async handler after its await) together with the effect they trigger.   *)
(*                                                                         *)
(* The REST backend is not part of App.js: a response is any value of the  *)
(* expected shape, drawn from a small universe when the request settles.   *)
(***************************************************************************)
EXTENDS Integers, Sequences, FiniteSets

VARIABLES
    posts,          \* useState([])            line 5
    currentPost,    \* useState(null)          line 6
    title,          \* useState('')            line 8
    content,        \* useState('')            line 9
    image,          \* useState(null)          line 10
    imageUrl,       \* useState('')            line 11
    notification,   \* useState({message,type}) line 12
    currentPage,    \* useState('list')        line 13
    inflight,       \* requests issued by fetch() and not settled yet
    timers,         \* setTimeout callbacks of showNotification still pending
    nextSeq,        \* history: number the next request gets (issue order)
    ev,             \* history: the handler that ran last
    lastOk,         \* history: latest-issued list fetch that has succeeded
    lastGet,        \* history: data of the latest successful get-by-id
    seenIds,        \* history: ids of the posts successful responses held
    rec             \* whether this run keeps ev, lastOk, lastGet and seenIds

vars == <<posts, currentPost, title, content, image, imageUrl, notification,
          currentPage, inflight, timers, nextSeq, ev, lastOk, lastGet,
          seenIds, rec>>

----------------------------------------------------------------------------
(* Bounds *)

\* Requests issued in one run, the mount's list fetch included.
MaxReq == 3

----------------------------------------------------------------------------
(* Values *)

\* JavaScript null, for a string-valued cell (image file, image URL).
Null == "null"

\* JavaScript null, for currentPost.
NoPost == [id |-> 0, title |-> "", content |-> "", image |-> Null]

\* What the backend may send for a post: {id, title, content, image}, one
\* without an image and one with.
ServerPosts ==
    { [id |-> 1, title |-> "a", content |-> "b", image |-> Null],
      [id |-> 2, title |-> "b", content |-> "a", image |-> "u"] }

\* What the backend may send for the list: posts with distinct ids.
ServerLists ==
    {<<>>} \cup {<<p>> : p \in ServerPosts}
           \cup {<<p, q>> : p \in {x \in ServerPosts : x.id = 1},
                            q \in {x \in ServerPosts : x.id = 2}}

\* What the user may type into a text field (a field starts empty on the
\* create form), and the files they may pick.
Texts == {"a"}
Files == {"f"}

\* How a request fails: fetch() rejects, or response.ok is false.
Failures == {"network", "http"}

Pages == {"list", "create", "view", "edit"}

NoNotification == [message |-> "", type |-> ""]

\* The body of a request that has none.
NoBody == [enc |-> "none", title |-> "", content |-> "", image |-> Null]

\* The new value of a history variable: the program reads none of them, and
\* a run that does not keep them leaves each at its initial value.
Record(new, old) == IF rec THEN new ELSE old

\* The handler that runs, the page it runs on, and how the request it
\* settles failed ("" when it did not).
Event(kind, why) ==
    Record([kind |-> kind, from |-> currentPage, why |-> why], ev)

----------------------------------------------------------------------------
(* Requests *)

API_BASE_URL == "/api/posts/"

\* A url is the base alone, or the base and an id: `${API_BASE_URL}${id}/`.
CollectionUrl == <<API_BASE_URL>>
ItemUrl(id) == <<API_BASE_URL, id>>
UrlId(url) == IF Len(url) = 2 THEN url[2] ELSE 0

\* A request in flight: its number in issue order, the handler that awaits
\* it, what fetch() was called with, and the truthiness of currentPost in
\* the awaiting handler's closure (`sel`, read by handleSubmit only).
Request(seq, kind, method, url, body, sel) ==
    [seq |-> seq, kind |-> kind, method |-> method, url |-> url,
     body |-> body, sel |-> sel]

\* fetch(API_BASE_URL)
ListRequest(seq) == Request(seq, "list", "GET", CollectionUrl, NoBody, FALSE)

\* fetch(`${API_BASE_URL}${id}/`)
GetRequest(seq, id) == Request(seq, "get", "GET", ItemUrl(id), NoBody, FALSE)

\* fetch(`${API_BASE_URL}${id}/`, {method: 'DELETE'})
DeleteRequest(seq, id) ==
    Request(seq, "delete", "DELETE", ItemUrl(id), NoBody, FALSE)

\* Mutant: JSON.stringify({title, content}) when no file is attached.
FormData_jsonWithoutImage(t, c, img) ==
    [enc |-> IF img # Null THEN "multipart" ELSE "json",
     title |-> t, content |-> c, image |-> img]

\* const formData = new FormData(); append title, content and, if set, image
FormData(t, c, img) ==
    [enc |-> "multipart", title |-> t, content |-> c, image |-> img]

\* method and url of a submit: PUT to the post's url if one is selected and
\* the page is edit, POST to the collection otherwise.
SubmitMethod(cp, page) ==
    IF cp # NoPost /\ page = "edit" THEN "PUT" ELSE "POST"
SubmitUrl(cp, page) ==
    IF cp # NoPost /\ page = "edit" THEN ItemUrl(cp.id) ELSE CollectionUrl

CanIssue == nextSeq <= MaxReq

Issue(r) ==
    /\ inflight' = inflight \cup {r}
    /\ nextSeq' = nextSeq + 1

\* Requests issued by the step being taken.
NewRequests == inflight' \ inflight

----------------------------------------------------------------------------
(* useEffect(() => { if (currentPage === 'list') fetchPosts() }, [currentPage]) *)

\* Mutant: the effect with an empty dependency array, run on mount only.
EffectFetches_mountOnly(prev, cur) == cur = "list" /\ prev = "unmounted"

\* The effect runs after the first render (prev = "unmounted") and after a
\* render in which currentPage differs from the previous render's.
EffectFetches(prev, cur) == cur = "list" /\ prev # cur

\* A state update that sets currentPage to `page` and settles request set
\* `done`: the page, the effect's list fetch if it runs, the requests left.
SetPage(page, done) ==
    /\ currentPage' = page
    /\ IF EffectFetches(currentPage, page)
       THEN /\ CanIssue
            /\ inflight' = (inflight \ done) \cup {ListRequest(nextSeq)}
            /\ nextSeq' = nextSeq + 1
       ELSE /\ inflight' = inflight \ done
            /\ nextSeq' = nextSeq

----------------------------------------------------------------------------
(* showNotification *)

\* Mutant: the setTimeout call is left out.
showNotification_noTimer(message, type) ==
    /\ notification' = [message |-> message, type |-> type]
    /\ timers' = timers

showNotification(message, type) ==
    /\ notification' = [message |-> message, type |-> type]
    /\ timers' = timers + 1

\* The setTimeout callback: setNotification({message: '', type: ''}).
TimerFires ==
    /\ timers > 0
    /\ notification' = NoNotification
    /\ timers' = timers - 1
    /\ ev' = Event("timer", "")
    /\ UNCHANGED <<posts, currentPost, title, content, image, imageUrl,
                   currentPage, inflight, nextSeq, lastOk, lastGet,
                   seenIds, rec>>

----------------------------------------------------------------------------
\* The component after its first render and the mount effect.
Mounted ==
    /\ posts = <<>>
    /\ currentPost = NoPost
    /\ title = ""
    /\ content = ""
    /\ image = Null
    /\ imageUrl = ""
    /\ notification = NoNotification
    /\ currentPage = "list"
    /\ inflight = IF EffectFetches("unmounted", "list") THEN {ListRequest(1)} ELSE {}
    /\ nextSeq = 2
    /\ timers = 0
    /\ ev = [kind |-> "mount", from |-> "unmounted", why |-> ""]
    /\ lastOk = [seq |-> 0, data |-> <<>>]
    /\ lastGet = NoPost
    /\ seenIds = {}

Init == Mounted /\ rec = TRUE

\* The same start, for a run that keeps no history.
BareInit == Mounted /\ rec = FALSE

----------------------------------------------------------------------------
(* fetchPosts: the part after  await fetch(API_BASE_URL) / response.json() *)

\* response.ok: setPosts(data).
fetchPosts_ok(r, data) ==
    /\ r \in inflight /\ r.kind = "list"
    /\ data \in ServerLists
    /\ posts' = data
    /\ inflight' = inflight \ {r}
    /\ lastOk' = Record(IF r.seq > lastOk.seq
                           THEN [seq |-> r.seq, data |-> data]
                           ELSE lastOk, lastOk)
    /\ seenIds' = Record(seenIds \cup {data[i].id : i \in 1..Len(data)},
                         seenIds)
    /\ ev' = Event("fetchPosts_ok", "")
    /\ UNCHANGED <<currentPost, title, content, image, imageUrl, notification,
                   currentPage, timers, nextSeq, lastGet, rec>>

\* Mutant: the catch block also empties the list.
fetchPosts_fail_clearsPosts(r, why) ==
    /\ r \in inflight /\ r.kind = "list"
    /\ why \in Failures
    /\ showNotification("Failed to fetch posts.", "error")
    /\ posts' = <<>>
    /\ inflight' = inflight \ {r}
    /\ ev' = Event("fetchPosts_fail", why)
    /\ UNCHANGED <<currentPost, title, content, image, imageUrl,
                   currentPage, nextSeq, lastOk, lastGet,
                   seenIds, rec>>

\* fetch rejected or !response.ok: the catch block.
fetchPosts_fail(r, why) ==
    /\ r \in inflight /\ r.kind = "list"
    /\ why \in Failures
    /\ showNotification("Failed to fetch posts.", "error")
    /\ inflight' = inflight \ {r}
    /\ ev' = Event("fetchPosts_fail", why)
    /\ UNCHANGED <<posts, currentPost, title, content, image, imageUrl,
                   currentPage, nextSeq, lastOk, lastGet,
                   seenIds, rec>>

----------------------------------------------------------------------------
(* fetchPostById *)

\* The View button of row i of the list: fetchPostById(post.id) up to its
\* await.
fetchPostById(i) ==
    /\ currentPage = "list"
    /\ i \in 1..Len(posts)
    /\ CanIssue
    /\ Issue(GetRequest(nextSeq, posts[i].id))
    /\ ev' = Event("fetchPostById", "")
    /\ UNCHANGED <<posts, currentPost, title, content, image, imageUrl,
                   notification, currentPage, timers, lastOk, lastGet,
                   seenIds, rec>>

\* Mutant: the content field is filled with the title.
fetchPostById_ok_contentFromTitle(r, data) ==
    /\ r \in inflight /\ r.kind = "get"
    /\ data \in ServerPosts /\ data.id = UrlId(r.url)
    /\ currentPost' = data
    /\ title' = data.title
    /\ content' = data.title
    /\ imageUrl' = data.image
    /\ image' = Null
    /\ SetPage("view", {r})
    /\ lastGet' = Record(data, lastGet)
    /\ seenIds' = Record(seenIds \cup {data.id}, seenIds)
    /\ ev' = Event("fetchPostById_ok", "")
    /\ UNCHANGED <<posts, notification, timers, lastOk, rec>>

\* response.ok: the backend answers GET /api/posts/{id}/ with the post of
\* that id, in whatever version it then holds.
fetchPostById_ok(r, data) ==
    /\ r \in inflight /\ r.kind = "get"
    /\ data \in ServerPosts /\ data.id = UrlId(r.url)
    /\ currentPost' = data
    /\ title' = data.title
    /\ content' = data.content
    /\ imageUrl' = data.image
    /\ image' = Null
    /\ SetPage("view", {r})
    /\ lastGet' = Record(data, lastGet)
    /\ seenIds' = Record(seenIds \cup {data.id}, seenIds)
    /\ ev' = Event("fetchPostById_ok", "")
    /\ UNCHANGED <<posts, notification, timers, lastOk, rec>>

fetchPostById_fail(r, why) ==
    /\ r \in inflight /\ r.kind = "get"
    /\ why \in Failures
    /\ showNotification("Failed to fetch post details.", "error")
    /\ inflight' = inflight \ {r}
    /\ ev' = Event("fetchPostById_fail", why)
    /\ UNCHANGED <<posts, currentPost, title, content, image, imageUrl,
                   currentPage, nextSeq, lastOk, lastGet,
                   seenIds, rec>>

----------------------------------------------------------------------------
(* handleSubmit *)

\* The form's submit button, on the create or edit page; the browser submits
\* only when the two `required` fields are filled.  The closure keeps
\* currentPost for the wording of the notification.
handleSubmit ==
    /\ currentPage \in {"create", "edit"}
    /\ title # "" /\ content # ""
    /\ CanIssue
    /\ Issue(Request(nextSeq, "submit",
                     SubmitMethod(currentPost, currentPage),
                     SubmitUrl(currentPost, currentPage),
                     FormData(title, content, image),
                     currentPost # NoPost))
    /\ ev' = Event("handleSubmit", "")
    /\ UNCHANGED <<posts, currentPost, title, content, image, imageUrl,
                   notification, currentPage, timers, lastOk, lastGet,
                   seenIds, rec>>

\* Mutant: setCurrentPage('list') is left out.
handleSubmit_ok_keepsPage(r) ==
    /\ r \in inflight /\ r.kind = "submit"
    /\ showNotification(IF r.sel THEN "Post updated successfully!"
                                 ELSE "Post created successfully!", "success")
    /\ title' = ""
    /\ content' = ""
    /\ image' = Null
    /\ imageUrl' = ""
    /\ currentPost' = NoPost
    /\ SetPage(currentPage, {r})
    /\ ev' = Event("handleSubmit_ok", "")
    /\ UNCHANGED <<posts, lastOk, lastGet,
                   seenIds, rec>>

\* Mutant: setImage(null) is left out.
handleSubmit_ok_keepsImage(r) ==
    /\ r \in inflight /\ r.kind = "submit"
    /\ showNotification(IF r.sel THEN "Post updated successfully!"
                                 ELSE "Post created successfully!", "success")
    /\ title' = ""
    /\ content' = ""
    /\ image' = image
    /\ imageUrl' = ""
    /\ currentPost' = NoPost
    /\ SetPage("list", {r})
    /\ ev' = Event("handleSubmit_ok", "")
    /\ UNCHANGED <<posts, lastOk, lastGet,
                   seenIds, rec>>

handleSubmit_ok(r) ==
    /\ r \in inflight /\ r.kind = "submit"
    /\ showNotification(IF r.sel THEN "Post updated successfully!"
                                 ELSE "Post created successfully!", "success")
    /\ title' = ""
    /\ content' = ""
    /\ image' = Null
    /\ imageUrl' = ""
    /\ currentPost' = NoPost
    /\ SetPage("list", {r})
    /\ ev' = Event("handleSubmit_ok", "")
    /\ UNCHANGED <<posts, lastOk, lastGet,
                   seenIds, rec>>

\* Mutant: the catch block also leaves the form for the list.
handleSubmit_fail_toList(r, why) ==
    /\ r \in inflight /\ r.kind = "submit"
    /\ why \in Failures
    /\ showNotification(IF r.sel THEN "Failed to update post."
                                 ELSE "Failed to create post.", "error")
    /\ SetPage("list", {r})
    /\ ev' = Event("handleSubmit_fail", why)
    /\ UNCHANGED <<posts, currentPost, title, content, image, imageUrl,
                   lastOk, lastGet,
                   seenIds, rec>>

\* fetch rejected, or !response.ok (after the error body is read): the catch
\* block.
handleSubmit_fail(r, why) ==
    /\ r \in inflight /\ r.kind = "submit"
    /\ why \in Failures
    /\ showNotification(IF r.sel THEN "Failed to update post."
                                 ELSE "Failed to create post.", "error")
    /\ inflight' = inflight \ {r}
    /\ ev' = Event("handleSubmit_fail", why)
    /\ UNCHANGED <<posts, currentPost, title, content, image, imageUrl,
                   currentPage, nextSeq, lastOk, lastGet,
                   seenIds, rec>>

----------------------------------------------------------------------------
(* handleDelete *)

\* Mutant: the post is taken off the list before the backend answers.
handleDelete_optimistic(id) ==
    /\ CanIssue
    /\ Issue(DeleteRequest(nextSeq, id))
    /\ posts' = SelectSeq(posts, LAMBDA p : p.id # id)
    /\ ev' = Event("handleDelete", "")
    /\ UNCHANGED <<currentPost, title, content, image, imageUrl,
                   notification, currentPage, timers, lastOk, lastGet,
                   seenIds, rec>>

\* handleDelete(id) up to its await: no confirmation, the request goes out.
handleDelete(id) ==
    /\ CanIssue
    /\ Issue(DeleteRequest(nextSeq, id))
    /\ ev' = Event("handleDelete", "")
    /\ UNCHANGED <<posts, currentPost, title, content, image, imageUrl,
                   notification, currentPage, timers, lastOk, lastGet,
                   seenIds, rec>>

\* Mutant: the row's index is passed where its post's id is meant.
renderPostList_Delete_byIndex(i) ==
    /\ currentPage = "list"
    /\ i \in 1..Len(posts)
    /\ handleDelete(i)

\* The Delete button of row i of the list.
renderPostList_Delete(i) ==
    /\ currentPage = "list"
    /\ i \in 1..Len(posts)
    /\ handleDelete(posts[i].id)

\* The Delete button of the view page.
renderPostView_Delete ==
    /\ currentPage = "view"
    /\ currentPost # NoPost
    /\ handleDelete(currentPost.id)

\* Mutant: setCurrentPage('list') is left out.
handleDelete_ok_keepsPage(r) ==
    /\ r \in inflight /\ r.kind = "delete"
    /\ showNotification("Post deleted successfully!", "success")
    /\ SetPage(currentPage, {r})
    /\ ev' = Event("handleDelete_ok", "")
    /\ UNCHANGED <<posts, currentPost, title, content, image, imageUrl,
                   lastOk, lastGet,
                   seenIds, rec>>

handleDelete_ok(r) ==
    /\ r \in inflight /\ r.kind = "delete"
    /\ showNotification("Post deleted successfully!", "success")
    /\ SetPage("list", {r})
    /\ ev' = Event("handleDelete_ok", "")
    /\ UNCHANGED <<posts, currentPost, title, content, image, imageUrl,
                   lastOk, lastGet,
                   seenIds, rec>>

handleDelete_fail(r, why) ==
    /\ r \in inflight /\ r.kind = "delete"
    /\ why \in Failures
    /\ showNotification("Failed to delete post.", "error")
    /\ inflight' = inflight \ {r}
    /\ ev' = Event("handleDelete_fail", why)
    /\ UNCHANGED <<posts, currentPost, title, content, image, imageUrl,
                   currentPage, nextSeq, lastOk, lastGet,
                   seenIds, rec>>

----------------------------------------------------------------------------
(* The synchronous handlers *)

\* Mutant: setImage(null) is left out.
handleCreateNew_keepsImage ==
    /\ currentPage = "list"
    /\ currentPost' = NoPost
    /\ title' = ""
    /\ content' = ""
    /\ image' = image
    /\ imageUrl' = ""
    /\ SetPage("create", {})
    /\ ev' = Event("handleCreateNew", "")
    /\ UNCHANGED <<posts, notification, timers, lastOk, lastGet,
                   seenIds, rec>>

\* Mutant: setCurrentPost(null) is left out.
handleCreateNew_keepsPost ==
    /\ currentPage = "list"
    /\ currentPost' = currentPost
    /\ title' = ""
    /\ content' = ""
    /\ image' = Null
    /\ imageUrl' = ""
    /\ SetPage("create", {})
    /\ ev' = Event("handleCreateNew", "")
    /\ UNCHANGED <<posts, notification, timers, lastOk, lastGet,
                   seenIds, rec>>

\* Mutant: the button is rendered on every page but the create form.
handleCreateNew_anyPage ==
    /\ currentPage # "create"
    /\ currentPost' = NoPost
    /\ title' = ""
    /\ content' = ""
    /\ image' = Null
    /\ imageUrl' = ""
    /\ SetPage("create", {})
    /\ ev' = Event("handleCreateNew", "")
    /\ UNCHANGED <<posts, notification, timers, lastOk, lastGet,
                   seenIds, rec>>

\* The Create New Post button of the list page.
handleCreateNew ==
    /\ currentPage = "list"
    /\ currentPost' = NoPost
    /\ title' = ""
    /\ content' = ""
    /\ image' = Null
    /\ imageUrl' = ""
    /\ SetPage("create", {})
    /\ ev' = Event("handleCreateNew", "")
    /\ UNCHANGED <<posts, notification, timers, lastOk, lastGet,
                   seenIds, rec>>

handleEdit(post) ==
    /\ currentPost' = post
    /\ title' = post.title
    /\ content' = post.content
    /\ image' = Null
    /\ imageUrl' = post.image
    /\ SetPage("edit", {})
    /\ ev' = Event("handleEdit", "")
    /\ UNCHANGED <<posts, notification, timers, lastOk, lastGet,
                   seenIds, rec>>

\* The Edit button of row i of the list.
renderPostList_Edit(i) ==
    /\ currentPage = "list"
    /\ i \in 1..Len(posts)
    /\ handleEdit(posts[i])

\* The Edit button of the view page.
renderPostView_Edit ==
    /\ currentPage = "view"
    /\ currentPost # NoPost
    /\ handleEdit(currentPost)

\* The form's Cancel button: setCurrentPage('list').
Cancel ==
    /\ currentPage \in {"create", "edit"}
    /\ SetPage("list", {})
    /\ ev' = Event("Cancel", "")
    /\ UNCHANGED <<posts, currentPost, title, content, image, imageUrl,
                   notification, timers, lastOk, lastGet,
                   seenIds, rec>>

\* The view page's Back to List button: setCurrentPage('list').
BackToList ==
    /\ currentPage = "view"
    /\ currentPost # NoPost
    /\ SetPage("list", {})
    /\ ev' = Event("BackToList", "")
    /\ UNCHANGED <<posts, currentPost, title, content, image, imageUrl,
                   notification, timers, lastOk, lastGet,
                   seenIds, rec>>

\* onChange of the title input.  (The three form inputs share one event
\* kind: no property tells them apart by it.)
setTitle(v) ==
    /\ currentPage \in {"create", "edit"}
    /\ v \in Texts /\ v # title
    /\ title' = v
    /\ ev' = Event("input", "")
    /\ UNCHANGED <<posts, currentPost, content, image, imageUrl, notification,
                   currentPage, inflight, timers, nextSeq, lastOk, lastGet,
                   seenIds, rec>>

\* onChange of the content textarea.
setContent(v) ==
    /\ currentPage \in {"create", "edit"}
    /\ v \in Texts /\ v # content
    /\ content' = v
    /\ ev' = Event("input", "")
    /\ UNCHANGED <<posts, currentPost, title, image, imageUrl, notification,
                   currentPage, inflight, timers, nextSeq, lastOk, lastGet,
                   seenIds, rec>>

\* onChange of the file input; f = Null when no file was chosen.
handleImageChange(f) ==
    /\ currentPage \in {"create", "edit"}
    /\ f \in Files \cup {Null}
    /\ image' = IF f # Null THEN f ELSE image
    /\ ev' = Event("input", "")
    /\ UNCHANGED <<posts, currentPost, title, content, imageUrl, notification,
                   currentPage, inflight, timers, nextSeq, lastOk, lastGet,
                   seenIds, rec>>

----------------------------------------------------------------------------
Next ==
    \/ \E r \in inflight, data \in ServerLists : fetchPosts_ok(r, data)
    \/ \E r \in inflight, why \in Failures : fetchPosts_fail(r, why)
    \/ \E i \in 1..Len(posts) : fetchPostById(i)
    \/ \E r \in inflight, data \in ServerPosts : fetchPostById_ok(r, data)
    \/ \E r \in inflight, why \in Failures : fetchPostById_fail(r, why)
    \/ handleSubmit
    \/ \E r \in inflight : handleSubmit_ok(r)
    \/ \E r \in inflight, why \in Failures : handleSubmit_fail(r, why)
    \/ \E i \in 1..Len(posts) : renderPostList_Delete(i)
    \/ renderPostView_Delete
    \/ \E r \in inflight : handleDelete_ok(r)
    \/ \E r \in inflight, why \in Failures : handleDelete_fail(r, why)
    \/ handleCreateNew
    \/ \E i \in 1..Len(posts) : renderPostList_Edit(i)
    \/ renderPostView_Edit
    \/ Cancel
    \/ BackToList
    \/ \E v \in Texts : setTitle(v)
    \/ \E v \in Texts : setContent(v)
    \/ \E f \in Files \cup {Null} : handleImageChange(f)
    \/ TimerFires

Spec == Init /\ [][Next]_vars

----------------------------------------------------------------------------
(* Properties *)

FailKinds == {"fetchPosts_fail", "fetchPostById_fail", "handleSubmit_fail",
              "handleDelete_fail"}

FormFieldsUnchanged == UNCHANGED <<title, content, image, imageUrl>>

\* C1: in every reachable state, page = view or page = edit implies that
\* currentPost is set.
C1_ViewEditHasPost ==
    currentPage \in {"view", "edit"} => currentPost # NoPost

\* A get-by-id response that arrived after the user had moved on to the
\* create form, where handleCreateNew had unset currentPost.
C1_Witness ==
    /\ ev.kind = "fetchPostById_ok"
    /\ ev.from = "create"
    /\ currentPage = "view"
    /\ currentPost # NoPost

\* C2: the mount issues exactly one list request, and so does every step
\* that changes page from a non-list value to list.
C2_OneListFetchOnEntry ==
    /\ inflight = {ListRequest(1)}
    /\ [][(currentPage # "list" /\ currentPage' = "list")
            => NewRequests = {ListRequest(nextSeq)}]_vars

\* The page has just changed to list and the effect's request is in flight.
C2_Witness ==
    /\ ev.from \in {"create", "view", "edit"}
    /\ currentPage = "list"
    /\ ListRequest(nextSeq - 1) \in inflight
    /\ nextSeq > 2

\* C3: a submit issues exactly one request: a PUT to the url of currentPost
\* when a post is selected at the time of submission, a POST to the
\* collection when none is.
C3_SubmitRequest ==
    [][ev'.kind = "handleSubmit" =>
         \E r \in inflight' :
            /\ NewRequests = {r}
            /\ r.kind = "submit"
            /\ currentPost # NoPost
                 => r.method = "PUT" /\ r.url = ItemUrl(currentPost.id)
            /\ currentPost = NoPost
                 => r.method = "POST" /\ r.url = CollectionUrl]_vars

\* A PUT has been issued from the edit form.
C3_Witness ==
    /\ ev.kind = "handleSubmit"
    /\ currentPost # NoPost
    /\ \E r \in inflight : r.seq = nextSeq - 1 /\ r.method = "PUT"

\* C4: when the response to a submit is successful, page becomes list,
\* currentPost becomes unset, title, content, image and imageUrl are reset
\* and a success notification is shown.
C4_SubmitSuccess ==
    ev.kind = "handleSubmit_ok" =>
        /\ currentPage = "list"
        /\ currentPost = NoPost
        /\ title = "" /\ content = "" /\ image = Null /\ imageUrl = ""
        /\ notification.type = "success"
        /\ notification.message # ""

\* An update has succeeded.
C4_Witness ==
    /\ ev.kind = "handleSubmit_ok"
    /\ notification.message = "Post updated successfully!"

\* C5: a delete click issues, in the same step, exactly one DELETE request
\* to the url of the chosen post (a row of the list, or the post viewed), and
\* when a delete request succeeds page is list whatever it was before.
C5_Delete ==
    [][/\ ev'.kind = "handleDelete" =>
            \E r \in inflight' :
               /\ NewRequests = {r}
               /\ r.method = "DELETE"
               /\ currentPage = "list"
                    => \E i \in 1..Len(posts) : r.url = ItemUrl(posts[i].id)
               /\ currentPage = "view" => r.url = ItemUrl(currentPost.id)
       /\ ev'.kind = "handleDelete_ok" => currentPage' = "list"]_vars

\* A delete succeeded after the user had opened the create form.
C5_Witness ==
    /\ ev.kind = "handleDelete_ok"
    /\ ev.from = "create"
    /\ currentPage = "list"

\* C6: handling the failure of any request, by network error or by a non-2xx
\* status, leaves page, posts, currentPost and the form fields unchanged and
\* sets a notification of kind error.
C6_Failure ==
    [][ev'.kind \in FailKinds =>
         /\ UNCHANGED <<currentPage, posts, currentPost>>
         /\ FormFieldsUnchanged
         /\ notification'.type = "error"
         /\ notification'.message # ""]_vars

\* A submit was refused with a non-2xx status while the form held a file.
C6_Witness ==
    /\ ev.kind = "handleSubmit_fail"
    /\ ev.why = "http"
    /\ image # Null
    /\ notification.type = "error"

\* C7: in every reachable state with page = list, posts is the data of the
\* most recently issued list fetch among those that have succeeded.
C7_PostsAreLatestFetch ==
    currentPage = "list" => posts = lastOk.data

\* C8: at most one request is in flight at any time.
C8_OneInFlight ==
    Cardinality(inflight) <= 1

\* The edges of C9 as stated.
StatedEdges ==
    { <<"list", "create">>, <<"create", "list">>, <<"list", "view">>,
      <<"view", "edit">>, <<"edit", "list">>, <<"view", "list">> }

\* C9 as stated: every change of page is one of the stated edges.
C9_StatedEdgesOnly ==
    [][currentPage' # currentPage
         => <<currentPage, currentPage'>> \in StatedEdges]_vars

\* C9, amended: every change of page is a stated edge, list->edit (the Edit
\* button of a list row), or create->view or edit->view (a get-by-id
\* response that arrives on the form); create->edit, edit->create and
\* view->create do not occur.
C9_Edges ==
    [][currentPage' # currentPage
         => <<currentPage, currentPage'>> \in
               StatedEdges \cup { <<"list", "edit">>, <<"create", "view">>,
                                  <<"edit", "view">> }]_vars

\* The Edit button of a list row was clicked.
C9_Witness ==
    /\ ev.kind = "handleEdit"
    /\ ev.from = "list"
    /\ currentPage = "edit"

\* The form fields title and content hold what currentPost does.
Seeded == title = currentPost.title /\ content = currentPost.content

\* C10 as stated: on every entry to view or edit, currentPost is the data
\* of the response to a get-by-id request and the fields are seeded from it.
C10_EntryFollowsGet ==
    [][(currentPage' \in {"view", "edit"} /\ currentPage' # currentPage)
         => /\ lastGet' # NoPost
            /\ currentPost' = lastGet'
            /\ Seeded']_vars

\* C10, amended: every entry to view is the handling of the successful
\* response to a get-by-id request, with currentPost the data of that
\* response; an entry to edit issues and settles no request and takes
\* currentPost from the list row clicked or from the post viewed; on either
\* entry title and content are those of currentPost.
C10_Entry ==
    [][/\ (currentPage' = "view" /\ currentPage # "view") =>
            /\ \E r \in inflight \ inflight' :
                  /\ r.kind = "get" /\ r.method = "GET"
                  /\ r.url = ItemUrl(currentPost'.id)
            /\ currentPost' = lastGet'
            /\ Seeded'
       /\ (currentPage' = "edit" /\ currentPage # "edit") =>
            /\ inflight' = inflight
            /\ currentPage = "list"
                 => \E i \in 1..Len(posts) : currentPost' = posts[i]
            /\ currentPage = "view" => currentPost' = currentPost
            /\ Seeded']_vars

\* The edit form was entered from a list row of a post never fetched by id.
C10_Witness ==
    /\ ev.kind = "handleEdit"
    /\ ev.from = "list"
    /\ currentPage = "edit"
    /\ lastGet = NoPost
    /\ Seeded

\* C11: whenever a create, update or delete request completes successfully,
\* the list is fetched again: the step that handles the success issues a
\* list request, whatever the page is then.
C11_RefetchAfterSuccess ==
    [][ev'.kind \in {"handleSubmit_ok", "handleDelete_ok"}
         => NewRequests = {ListRequest(nextSeq)}]_vars

\* C14 as stated: after the request of a submit resolves, page is list, both
\* when the request succeeded and when it failed.
C14_ListAfterSubmit ==
    ev.kind \in {"handleSubmit_ok", "handleSubmit_fail"} => currentPage = "list"

\* C14, amended: handling the success of a submit sets page to list;
\* handling its failure leaves page as it is.
C14_ListAfterSuccessOnly ==
    [][/\ ev'.kind = "handleSubmit_ok" => currentPage' = "list"
       /\ ev'.kind = "handleSubmit_fail" => currentPage' = currentPage]_vars

\* An update failed and the edit form is still open.
C14_Witness ==
    /\ ev.kind = "handleSubmit_fail"
    /\ ev.from = "edit"
    /\ currentPage = "edit"

\* C15: the step that issues a view, submit or delete request leaves page,
\* posts, currentPost and the form fields unchanged; only the request goes
\* in flight.
C15_NoOptimisticUpdate ==
    [][ev'.kind \in {"fetchPostById", "handleSubmit", "handleDelete"} =>
         /\ UNCHANGED <<currentPage, posts, currentPost>>
         /\ FormFieldsUnchanged
         /\ Cardinality(NewRequests) = 1
         /\ inflight \subseteq inflight']_vars

\* A delete was just requested from the list and its post is still listed.
C15_Witness ==
    /\ ev.kind = "handleDelete"
    /\ currentPage = "list"
    /\ \E r \in inflight :
          /\ r.seq = nextSeq - 1 /\ r.method = "DELETE"
          /\ \E i \in 1..Len(posts) : posts[i].id = UrlId(r.url)

\* C13 as stated: the body of a submit request is multipart form data when
\* an image file is attached and JSON when none is.
C13_JsonWithoutImage ==
    \A r \in inflight :
        r.kind = "submit" =>
            r.body.enc = IF r.body.image # Null THEN "multipart" ELSE "json"

\* C13, amended: the body of a submit request is always multipart form data
\* holding the title and content fields, and it holds an image field (the
\* file picked) exactly when an image file is attached.
C13_AlwaysMultipart ==
    [][ev'.kind = "handleSubmit" =>
         \A r \in NewRequests :
            /\ r.body.enc = "multipart"
            /\ r.body.title = title /\ r.body.content = content
            /\ r.body.image = image]_vars

\* A submit without a file is in flight, as multipart form data.
C13_Witness ==
    \E r \in inflight :
        r.kind = "submit" /\ r.body.image = Null /\ r.body.enc = "multipart"

\* Every timer has the same delay, so the pending timers fire in the order
\* in which they were armed.  A notification that is showing was set by the
\* latest showNotification call, whose timer is the last of the `timers`
\* pending ones: the timer that fires is that one only if it is alone.
OwnTimerFires == timers = 1

\* C17: a notification is cleared only by the timer armed by the
\* showNotification call that set it: a timer that fires while a
\* notification is showing is that notification's own.
C17_ClearedByOwnTimer ==
    [][(ev'.kind = "timer" /\ notification.message # "") => OwnTimerFires]_vars

\* C18: the notification of a settled submit names the operation that was
\* requested: updated/update when the request was a PUT, created/create
\* when it was a POST; and on the create page no post is selected.
C18_WordingMatchesMethod ==
    /\ [](currentPage = "create" => currentPost = NoPost)
    /\ [][\A r \in inflight \ inflight' :
            /\ ev'.kind = "handleSubmit_ok" =>
                 notification'.message =
                    IF r.method = "PUT" THEN "Post updated successfully!"
                                        ELSE "Post created successfully!"
            /\ ev'.kind = "handleSubmit_fail" =>
                 notification'.message =
                    IF r.method = "PUT" THEN "Failed to update post."
                                        ELSE "Failed to create post."]_vars

\* A create has failed, and says so.
C18_Witness ==
    /\ ev.kind = "handleSubmit_fail"
    /\ ev.from = "create"
    /\ notification.message = "Failed to create post."

\* C19: on every entry to the create or edit form the image file is unset,
\* and while a form stays open the file changes only by the file input, so
\* the file a submit sends was picked during the current visit of the form.
C19_ImageUnsetOnEntry ==
    [][/\ (currentPage' \in {"create", "edit"} /\ currentPage' # currentPage)
            => image' = Null
       /\ (currentPage \in {"create", "edit"} /\ currentPage' = currentPage
           /\ image' # image)
            => ev'.kind = "input"
       /\ ev'.kind = "handleSubmit" =>
            \A r \in NewRequests : r.body.image = image]_vars

\* A submit with a file was sent from a form that was then cancelled (which
\* left the file set); the create form has been entered anew, without file.
C19_Witness ==
    /\ ev.kind = "handleCreateNew"
    /\ currentPage = "create"
    /\ image = Null
    /\ \E r \in inflight : r.kind = "submit" /\ r.body.image # Null

\* C16: every get-by-id, PUT and DELETE request in flight has a url with an
\* id, and that id is set and is the id of a post held by an earlier
\* successful response (a list fetch or a get-by-id).
C16_IdsFromServer ==
    \A r \in inflight :
        (r.kind = "get" \/ r.method \in {"PUT", "DELETE"}) =>
            /\ Len(r.url) = 2
            /\ UrlId(r.url) # NoPost.id
            /\ UrlId(r.url) \in seenIds

\* An update of post 2 is in flight; post 2 came with the list.
C16_Witness ==
    /\ \E r \in inflight : r.method = "PUT" /\ r.url = ItemUrl(2)
    /\ 2 \in seenIds
    /\ lastGet = NoPost

\* The browser runs every pending setTimeout callback once its delay is over.
FairSpec == BareInit /\ [][Next]_vars /\ WF_vars(TimerFires)

\* C12: whenever a notification is shown (message non-empty), it is
\* eventually cleared back to the empty notification, given that pending
\* timers eventually fire.
C12_EventuallyCleared ==
    (notification.message # "") ~> (notification = NoNotification)

\* Two notifications were shown and the timer of the first has fired and
\* cleared the second; the timer of the second is pending.
C12_Witness ==
    /\ notification = NoNotification
    /\ timers = 1
    /\ inflight = {}
    /\ nextSeq = 3

====
